---- MODULE Spec2Model ----
(***************************************************************************)
(* Presence and session-authority subsystem of the chat backend:           *)
(*   - the presence registry            (utils/onlineUsers.js)             *)
(*   - the socket connection handler    (sockets/chatSocket.js)            *)
(*   - the moderation endpoints, timers (routes/adminRoutes.js)            *)
(*                                                                         *)
(* The server is one event loop.  Every action below is one run-to-        *)
(* completion piece of a handler: the code between two suspension points   *)
(* (await of a store call, setTimeout).  Store reads and writes are         *)
(* evaluated in the step that issues them; the continuation after the      *)
(* await is a later step.  A server-side disconnect(true) only asks the    *)
(* transport to close: the socket's "disconnect" event is a later step     *)
(* (Disconnect), which may be the very next one.                           *)
(*                                                                         *)
(* SpecSock runs the socket handler alone, for every user; Spec runs it    *)
(* next to the ban route, SpecKick next to the kick route; SpecAdm,        *)
(* SpecExpiry and SpecMute run the moderation routes next to a user that   *)
(* connects without conflict.  The clock counts hours.                     *)
(***************************************************************************)
EXTENDS Integers, Sequences, FiniteSets, TLC

\* ---------------------------------------------------------------- bounds
MaxSockets == 3        \* connection attempts (socket ids) per run, sockets alone
MaxModSockets == 2     \* connection attempts per run next to one moderation route
MaxAdmSockets == 1     \* connection attempts per run next to all moderation routes
MaxTime == 1           \* clock ticks per run
MaxPunishments == 1    \* punishment records stored at once

\* ------------------------------------------------------------- constants
Null == 0
TokenTTL == 1          \* session lifetime: one hour
AdminId == 2           \* the user that holds the "admin" role

Users == {1, 2}
NoSuchUser == 3        \* an id with no session record that never connects
Tokens == {1, 2, 3}    \* session tokens issued before the run
\* token 1 is user 1's; the administrator is logged in on two devices
TokenOwner(t) == IF t = 1 THEN 1 ELSE AdminId
NoToken == 0           \* handshake without auth.token
ForgedToken == 4       \* a token whose signature does not verify
\* what a handshake may carry
Credentials == Tokens \cup {NoToken, ForgedToken}
\* next to the ban route the sockets are user 1's; the administrator (user 2)
\* acts through the HTTP route
ModCredentials == {1, NoToken, ForgedToken}
Sockets == 1..MaxSockets
Durations == {Null, 1} \* request body "duration": absent, or 60 minutes
\* setTimeout keeps its delay in a signed 32-bit integer of milliseconds:
\* 2^31 - 1 ms is 596 hours; a longer delay is replaced by 1 ms
TimeoutMax == 596
LongDuration == 597    \* "duration": 35820 minutes
\* reason || "No reason provided"
NoReason == "No reason provided"
Reasons == {"", "abuse"}
ReasonOr(reason) == IF reason = "" THEN NoReason ELSE reason
TimeoutDelay(duration) == IF duration > TimeoutMax THEN 0 ELSE duration

Username(u) == IF u = 1 THEN "alice" ELSE "bob"

VARIABLES
    now,               \* wall clock
    sessions,          \* UserToken table: token -> [userId, isValid, expiresAt]
    punishments,       \* Punishment table, in insertion (id) order
    onlineUsers,       \* the registry object: set of [userId, username, socketId]
    pc,                \* per socket: where its connection handler is
    conn,              \* per socket: transport state
    sockUser,          \* per socket: decoded.id kept in the handler's closure
    tokenRecord,       \* per socket: result of UserToken.findOne, until it is read
    ban,               \* the POST /ban/:id request in flight
    timers,            \* pending setTimeout callbacks of punishments
    mod,               \* the mute / unmute / unban / kick request in flight
    entered,           \* per socket: result of the "entered_chat" mute lookup, until read
    chatReq,           \* the POST / (chat message) request in flight
    messages,          \* Message table, in insertion (id) order
    login,             \* the POST /login request in flight
    out                \* what the last step sent / called, in order

vars == <<now, sessions, punishments, onlineUsers, pc, conn, sockUser,
          tokenRecord, ban, timers, mod, entered, chatReq, messages, login,
          out>>

modVars == <<mod, entered>>

reqVars == <<chatReq, messages, login>>

sockVars == <<pc, conn, sockUser, tokenRecord>>

\* ------------------------------------------------------- effects in `out`
Fx(op, ev, sock, rcpt, userId, names) ==
    [op |-> op, ev |-> ev, sock |-> sock, rcpt |-> rcpt,
     userId |-> userId, names |-> names, reason |-> "", expiresAt |-> Null,
     text |-> <<>>]

\* the same with {reason, expiresAt} in the payload
WithPunishment(fx, reason, expiresAt) ==
    [fx EXCEPT !.reason = reason, !.expiresAt = expiresAt]

\* the same with the message text in the payload
WithText(fx, text) == [fx EXCEPT !.text = text]

\* sockets of the namespace: connected and not yet closed
Connected == {s \in Sockets : conn[s] \in {"open", "closing"}}

\* io.to(socketId).emit(ev, {userId})
EmitTo(ev, socketId, userId) ==
    Fx("to", ev, socketId, {socketId} \cap Connected, userId, {})

\* io.emit(ev, {userId})
IoEmit(ev, userId) == Fx("emit", ev, Null, Connected, userId, {})

\* io.sockets.sockets.get(socketId)?.disconnect(true)
CloseCall(socketId) == Fx("disconnect", "", socketId, {}, Null, {})

\* console.log / console.error of the socket handler
Log(msg) == Fx("log", msg, Null, {}, Null, {})

\* res.status(code).json(...)
Respond(code) == Fx("respond", code, Null, {}, Null, {})

\* ------------------------------------------------------ presence registry
getUserSocketIdIn(reg, userId) ==
    IF \E e \in reg : e.userId = userId
    THEN (CHOOSE e \in reg : e.userId = userId).socketId
    ELSE Null

getUserSocketId(userId) == getUserSocketIdIn(onlineUsers, userId)

addUser_bySocket(reg, userId, username, socketId) ==
    IF \E e \in reg : e.socketId = socketId
    THEN reg
    ELSE reg \cup {[userId |-> userId, username |-> username, socketId |-> socketId]}

addUser_overwrite(reg, userId, username, socketId) ==
    {e \in reg : e.userId # userId}
    \cup {[userId |-> userId, username |-> username, socketId |-> socketId]}

addUser(reg, userId, username, socketId) ==
    IF \E e \in reg : e.userId = userId
    THEN reg
    ELSE {e \in reg : e.userId # userId}
         \cup {[userId |-> userId, username |-> username, socketId |-> socketId]}

\* what addUser returns: false if the key exists, true otherwise
addUserReturns(reg, userId) ==
    IF \E e \in reg : e.userId = userId THEN "false" ELSE "true"

removeUser_all(reg, userId) ==
    IF \E e \in reg : e.userId = userId THEN {} ELSE reg

removeUser(reg, userId) ==
    IF \E e \in reg : e.userId = userId
    THEN {e \in reg : e.userId # userId}
    ELSE reg

getAllUsernames(reg) == {e.username : e \in reg}

\* io.emit("chat_update_users", onlineUsers.getAllUsernames())
IoEmitUsers(reg, rcpt) == Fx("emit", "chat_update_users", Null, rcpt, Null, getAllUsernames(reg))

\* ------------------------------------------------------------ credentials
\* jwt.verify(token, JWT_SECRET): signature and the exp claim (login signs
\* tokens with expiresIn "1h" at time 0)
jwtVerify(token, t) == token \in Tokens /\ t < TokenTTL

\* UserToken.findOne({where: {token, isValid: true, expiresAt > now}})
findValidToken_noValid(tab, token, t) ==
    IF tab[token].expiresAt > t THEN "found" ELSE "null"

findValidToken(tab, token, t) ==
    IF tab[token].isValid /\ tab[token].expiresAt > t THEN "found" ELSE "null"

\* line 27: if (!tokenRecord); a rejected findOne promise lands in the catch
\* of line 77, which disconnects as well
NoTokenRecord_onlyThrow(rec) == rec = "error"

NoTokenRecord(rec) == rec # "found"

\* transport state after socket.disconnect() / the close event
Closed(c, s) == [c EXCEPT ![s] = "closed"]

\* transport state after sockets.get(id)?.disconnect(true)
Closing(c, s) == IF s \in Sockets /\ c[s] = "open" THEN [c EXCEPT ![s] = "closing"] ELSE c

\* no moderation request in flight
ModIdle == [pc |-> "idle", kind |-> "", target |-> Null, reason |-> "",
            duration |-> Null, expiresAt |-> Null]

\* results of Punishment.findOne in the "entered_chat" handler
Lookup(res, reason, expiresAt) == [res |-> res, reason |-> reason, expiresAt |-> expiresAt]
NoLookup == Lookup("idle", "", Null)

\* ------------------------------------------------------------------- init
MsgIdle == [pc |-> "idle", userId |-> Null, text |-> <<>>]

LoginIdle == [pc |-> "idle", userId |-> Null]

Init ==
    /\ now = 0
    /\ sessions = [t \in Tokens |-> [userId |-> TokenOwner(t), isValid |-> TRUE, expiresAt |-> TokenTTL]]
    /\ punishments = <<>>
    /\ onlineUsers = {}
    /\ pc = [s \in Sockets |-> "idle"]
    /\ conn = [s \in Sockets |-> "none"]
    /\ sockUser = [s \in Sockets |-> Null]
    /\ tokenRecord = [s \in Sockets |-> "unset"]
    /\ ban = [pc |-> "idle", target |-> Null, duration |-> Null, expiresAt |-> Null]
    /\ timers = {}
    /\ mod = ModIdle
    /\ entered = [s \in Sockets |-> NoLookup]
    /\ chatReq = MsgIdle
    /\ messages = <<>>
    /\ login = LoginIdle
    /\ out = <<>>

\* -------------------------------------------------------- socket handler
\* io.on("connection"): lines 7-25.  Socket ids are handed out in order.
Connection(s, token) ==
    /\ pc[s] = "idle"
    /\ \A r \in Sockets : r < s => pc[r] # "idle"
    /\ IF token = NoToken \/ ~jwtVerify(token, now)
       THEN /\ pc' = [pc EXCEPT ![s] = "rejected"]
            /\ conn' = Closed(conn, s)
            /\ out' = <<Log(IF token = NoToken THEN "No token provided" ELSE "Invalid token"),
                         CloseCall(s)>>
            /\ UNCHANGED <<sockUser, tokenRecord>>
       ELSE /\ pc' = [pc EXCEPT ![s] = "awaitSession"]
            /\ conn' = [conn EXCEPT ![s] = "open"]
            /\ sockUser' = [sockUser EXCEPT ![s] = sessions[token].userId]
            /\ \E r \in {findValidToken(sessions, token, now), "error"} :
                   tokenRecord' = [tokenRecord EXCEPT ![s] = r]
            /\ out' = <<>>
    /\ UNCHANGED <<now, sessions, punishments, onlineUsers, ban, timers, modVars, reqVars>>

\* lines 36-38: the previous connection of the user is told and closed
Evict_noClose(c, existingSocket, userId) ==
    [out |-> <<EmitTo("force_logout", existingSocket, userId)>>, conn |-> c]

Evict(c, existingSocket, userId) ==
    [out |-> <<EmitTo("force_logout", existingSocket, userId), CloseCall(existingSocket)>>,
     conn |-> Closing(c, existingSocket)]

\* lines 41-76: addUser, then the event handlers are installed
Register(s) ==
    /\ onlineUsers' = addUser(onlineUsers, sockUser[s], Username(sockUser[s]), s)
    /\ pc' = [pc EXCEPT ![s] = "active"]

\* the continuation after `await UserToken.findOne`: lines 27-41, 77-80
Admit(s) ==
    /\ pc[s] = "awaitSession"
    /\ IF NoTokenRecord(tokenRecord[s])
       THEN /\ pc' = [pc EXCEPT ![s] = "rejected"]
            /\ conn' = Closed(conn, s)
            /\ out' = <<Log(IF tokenRecord[s] = "error" THEN "Token verification error"
                             ELSE "Invalid or expired token"),
                         CloseCall(s)>>
            /\ UNCHANGED onlineUsers
       ELSE LET existingSocketId == getUserSocketId(sockUser[s]) IN
            /\ IF existingSocketId # Null
               THEN /\ out' = Evict(conn, existingSocketId, sockUser[s]).out
                    /\ conn' = Evict(conn, existingSocketId, sockUser[s]).conn
                    /\ pc' = [pc EXCEPT ![s] = "grace"]
                    /\ UNCHANGED onlineUsers
               ELSE /\ Register(s)
                    /\ out' = <<>>
                    /\ UNCHANGED conn
    /\ tokenRecord' = [tokenRecord EXCEPT ![s] = "unset"]
    /\ UNCHANGED <<now, sessions, punishments, sockUser, ban, timers, modVars, reqVars>>

\* the continuation after the 100 ms setTimeout: lines 39-76
AfterGrace(s) ==
    /\ pc[s] = "grace"
    /\ Register(s)
    /\ out' = <<>>
    /\ UNCHANGED <<now, sessions, punishments, conn, sockUser, tokenRecord, ban, timers, modVars,
                   reqVars>>

\* the socket's transport closes (the client went away, or a close the
\* server asked for completes); socket.on("disconnect") runs if installed:
\* lines 72-76
Disconnect_noHandler(s) ==
    /\ conn[s] \in {"open", "closing"}
    /\ conn' = Closed(conn, s)
    /\ out' = <<>>
    /\ UNCHANGED <<now, sessions, punishments, onlineUsers, pc, sockUser, tokenRecord,
                   ban, timers, modVars, reqVars>>

Disconnect(s) ==
    /\ conn[s] \in {"open", "closing"}
    /\ conn' = Closed(conn, s)
    /\ IF pc[s] = "active"
       THEN /\ onlineUsers' = removeUser(onlineUsers, sockUser[s])
            /\ out' = <<Fx("removeUser", "", Null, {}, sockUser[s], {}),
                         IoEmitUsers(onlineUsers', Connected \ {s})>>
       ELSE /\ out' = <<>>
            /\ UNCHANGED onlineUsers
    /\ UNCHANGED <<now, sessions, punishments, pc, sockUser, tokenRecord, ban, timers, modVars,
                   reqVars>>

\* ------------------------------------------------------- POST /ban/:id
\* verifyTokenWithBlacklist and checkRole(["admin"]) in front of the route
AdminRequest(token) ==
    /\ findValidToken(sessions, token, now) = "found"
    /\ jwtVerify(token, now)
    /\ sessions[token].userId = AdminId

InvalidateAll_everyone(tab, userId) ==
    [t \in DOMAIN tab |-> [tab[t] EXCEPT !.isValid = FALSE]]

\* UserToken.update({isValid: false}, {where: {userId, isValid: true}})
InvalidateAll(tab, userId) ==
    [t \in DOMAIN tab |->
        IF tab[t].userId = userId /\ tab[t].isValid
        THEN [tab[t] EXCEPT !.isValid = FALSE]
        ELSE tab[t]]

\* lines 69-83: the request arrives, expiresAt is computed, the target's
\* sessions are revoked; a failing store call lands in the catch (109-112)
BanRevokeUpTo(max, token, targetUserId, duration) ==
    /\ ban.pc = "idle"
    /\ Len(punishments) < max
    /\ AdminRequest(token)
    /\ \/ /\ sessions' = InvalidateAll(sessions, targetUserId)
          /\ ban' = [pc |-> "revoked", target |-> targetUserId, duration |-> duration,
                     expiresAt |-> IF duration # Null THEN now + duration ELSE Null]
          /\ out' = <<>>
       \/ /\ out' = <<Respond(500)>>
          /\ UNCHANGED <<sessions, ban>>
    /\ UNCHANGED <<now, punishments, onlineUsers, sockVars, timers, modVars, reqVars>>

BanRevoke(token, targetUserId, duration) ==
    BanRevokeUpTo(MaxPunishments, token, targetUserId, duration)

BanIdle == [pc |-> "idle", target |-> Null, duration |-> Null, expiresAt |-> Null]

\* lines 84-90: Punishment.create
BanCreate_evictOnFailure ==
    /\ ban.pc = "revoked"
    /\ \/ /\ punishments' = Append(punishments,
                [userId |-> ban.target, type |-> "ban", reason |-> NoReason,
                 expiresAt |-> ban.expiresAt])
          /\ ban' = [ban EXCEPT !.pc = "created"]
          /\ out' = <<>>
          /\ UNCHANGED <<onlineUsers, conn>>
       \/ /\ out' = <<Respond(500)>>
          /\ ban' = BanIdle
          /\ conn' = Closing(conn, getUserSocketId(ban.target))
          /\ onlineUsers' = removeUser(onlineUsers, ban.target)
          /\ UNCHANGED punishments
    /\ UNCHANGED <<now, sessions, pc, sockUser, tokenRecord, timers, modVars, reqVars>>

BanCreate_inPlace ==
    /\ ban.pc = "revoked"
    /\ \/ /\ punishments' = Append(
                SelectSeq(punishments,
                          LAMBDA p : ~(p.userId = ban.target /\ p.type = "ban")),
                [userId |-> ban.target, type |-> "ban", reason |-> NoReason,
                 expiresAt |-> ban.expiresAt])
          /\ ban' = [ban EXCEPT !.pc = "created"]
          /\ out' = <<>>
       \/ /\ out' = <<Respond(500)>>
          /\ ban' = BanIdle
          /\ UNCHANGED punishments
    /\ UNCHANGED <<now, sessions, onlineUsers, sockVars, timers, modVars, reqVars>>

BanCreate ==
    /\ ban.pc = "revoked"
    /\ \/ /\ punishments' = Append(punishments,
                [userId |-> ban.target, type |-> "ban", reason |-> NoReason,
                 expiresAt |-> ban.expiresAt])
          /\ ban' = [ban EXCEPT !.pc = "created"]
          /\ out' = <<>>
       \/ /\ out' = <<Respond(500)>>
          /\ ban' = BanIdle
          /\ UNCHANGED punishments
    /\ UNCHANGED <<now, sessions, onlineUsers, sockVars, timers, modVars, reqVars>>

\* lines 94-98: what the route does to the target's live connection
BanEvict_noRemove(reg, c, targetUserId) ==
    LET targetSocketId == getUserSocketIdIn(reg, targetUserId) IN
    IF targetSocketId # Null
    THEN [out |-> <<EmitTo("user_banned", targetSocketId, targetUserId),
                    CloseCall(targetSocketId),
                    Fx("removeUser", "", Null, {}, targetUserId, {})>>,
          conn |-> Closing(c, targetSocketId),
          reg |-> reg]
    ELSE [out |-> <<>>, conn |-> c, reg |-> reg]

BanEvict(reg, c, targetUserId) ==
    LET targetSocketId == getUserSocketIdIn(reg, targetUserId) IN
    IF targetSocketId # Null
    THEN [out |-> <<EmitTo("user_banned", targetSocketId, targetUserId),
                    CloseCall(targetSocketId),
                    Fx("removeUser", "", Null, {}, targetUserId, {})>>,
          conn |-> Closing(c, targetSocketId),
          reg |-> removeUser(reg, targetUserId)]
    ELSE [out |-> <<>>, conn |-> c, reg |-> reg]

\* lines 92-108: the synchronous rest of the route
BanFinish ==
    /\ ban.pc = "created"
    /\ LET ev == BanEvict(onlineUsers, conn, ban.target) IN
       /\ conn' = ev.conn
       /\ onlineUsers' = ev.reg
       /\ out' = ev.out \o <<IoEmit("notify_user_banned", ban.target), Respond(200)>>
    /\ timers' = IF ban.expiresAt # Null
                 THEN timers \cup {[userId |-> ban.target, type |-> "ban",
                                    at |-> now + TimeoutDelay(ban.duration),
                                    expiresAt |-> ban.expiresAt]}
                 ELSE timers
    /\ ban' = BanIdle
    /\ UNCHANGED <<now, sessions, punishments, pc, sockUser, tokenRecord, modVars, reqVars>>

\* Punishment.destroy({where: {userId, type}})
DestroyAll(tab, userId, type) ==
    SelectSeq(tab, LAMBDA p : ~(p.userId = userId /\ p.type = type))

\* lines 102-105: the expiry callback of a timed ban
TimerFire(tm) ==
    /\ tm \in timers
    /\ now >= tm.at
    /\ timers' = timers \ {tm}
    /\ punishments' = DestroyAll(punishments, tm.userId, tm.type)
    /\ out' = <<IoEmit(IF tm.type = "ban" THEN "user_unbanned" ELSE "user_unmuted", tm.userId)>>
    /\ UNCHANGED <<now, sessions, onlineUsers, sockVars, ban, modVars, reqVars>>

\* ------------------------------------------------------ POST /mute/:id
\* lines 15-25: the request arrives, expiresAt is computed, the record is
\* created; a failing store call lands in the catch (41-44)
MuteCreateUpTo(max, token, targetUserId, reason, duration) ==
    /\ mod.pc = "idle"
    /\ Len(punishments) < max
    /\ AdminRequest(token)
    /\ LET expiresAt == IF duration # Null THEN now + duration ELSE Null IN
       \/ /\ punishments' = Append(punishments,
                [userId |-> targetUserId, type |-> "mute", reason |-> ReasonOr(reason),
                 expiresAt |-> expiresAt])
          /\ mod' = [pc |-> "created", kind |-> "mute", target |-> targetUserId,
                     reason |-> ReasonOr(reason), duration |-> duration,
                     expiresAt |-> expiresAt]
          /\ out' = <<>>
       \/ /\ out' = <<Respond(500)>>
          /\ UNCHANGED <<punishments, mod>>
    /\ UNCHANGED <<now, sessions, onlineUsers, sockVars, ban, timers, entered, reqVars>>

MuteCreate(token, targetUserId, reason, duration) ==
    MuteCreateUpTo(MaxPunishments, token, targetUserId, reason, duration)

\* lines 27-30: the targeted notice, if the target has a presence entry
MuteNotice_andClose(reg, c, m) ==
    LET targetSocketId == getUserSocketIdIn(reg, m.target) IN
    IF targetSocketId # Null
    THEN [out |-> <<WithPunishment(EmitTo("user_muted", targetSocketId, m.target),
                                   m.reason, m.expiresAt),
                    CloseCall(targetSocketId)>>,
          conn |-> Closing(c, targetSocketId)]
    ELSE [out |-> <<>>, conn |-> c]

MuteNotice(reg, c, m) ==
    LET targetSocketId == getUserSocketIdIn(reg, m.target) IN
    IF targetSocketId # Null
    THEN [out |-> <<WithPunishment(EmitTo("user_muted", targetSocketId, m.target),
                                   m.reason, m.expiresAt)>>,
          conn |-> c]
    ELSE [out |-> <<>>, conn |-> c]

\* setTimeout(callback, duration * 60 * 1000), if (expiresAt)
Schedule(tms, m, type, t) ==
    IF m.expiresAt # Null
    THEN tms \cup {[userId |-> m.target, type |-> type,
                    at |-> t + TimeoutDelay(m.duration), expiresAt |-> m.expiresAt]}
    ELSE tms

\* lines 26-40: the synchronous rest of the route
MuteFinish ==
    /\ mod.pc = "created"
    /\ mod.kind = "mute"
    /\ LET ev == MuteNotice(onlineUsers, conn, mod) IN
       /\ conn' = ev.conn
       /\ out' = ev.out
                 \o <<WithPunishment(IoEmit("notify_user_muted", mod.target),
                                     mod.reason, mod.expiresAt),
                      Respond(200)>>
    /\ timers' = Schedule(timers, mod, "mute", now)
    /\ mod' = ModIdle
    /\ UNCHANGED <<now, sessions, punishments, onlineUsers, pc, sockUser, tokenRecord,
                   ban, entered, reqVars>>

\* ------------------------------------- POST /unmute/:id, POST /unban/:id
\* lines 51-53 and 119-121: Punishment.destroy({where: {userId, type}}); a
\* failing store call lands in the catch
RevokeDestroy(token, targetUserId, type) ==
    /\ mod.pc = "idle"
    /\ AdminRequest(token)
    /\ \/ /\ punishments' = DestroyAll(punishments, targetUserId, type)
          /\ mod' = [ModIdle EXCEPT !.pc = "destroyed", !.kind = type,
                                    !.target = targetUserId]
          /\ out' = <<>>
       \/ /\ out' = <<Respond(500)>>
          /\ UNCHANGED <<punishments, mod>>
    /\ UNCHANGED <<now, sessions, onlineUsers, sockVars, ban, timers, entered, reqVars>>

\* lines 54-56 and 122-124: the broadcast and the response
RevokeEffects_ifDeleted(type, targetUserId) ==
    <<Respond(200)>>

RevokeEffects(type, targetUserId) ==
    IF type = "mute"
    THEN <<IoEmit("user_unmuted", targetUserId), Respond(200)>>
    ELSE <<Respond(200), IoEmit("user_unbanned", targetUserId)>>

RevokeFinish ==
    /\ mod.pc = "destroyed"
    /\ out' = RevokeEffects(mod.kind, mod.target)
    /\ mod' = ModIdle
    /\ UNCHANGED <<now, sessions, punishments, onlineUsers, sockVars, ban, timers, entered,
                   reqVars>>

\* ------------------------------------------------------ POST /kick/:id
\* UserToken.update({isValid: false}, {where: {token}})
InvalidateAll_ofTarget(tab, token, targetUserId) == InvalidateAll(tab, targetUserId)

InvalidateToken(tab, token, targetUserId) ==
    [t \in DOMAIN tab |->
        IF t = token THEN [tab[t] EXCEPT !.isValid = FALSE] ELSE tab[t]]

\* verifyTokenWithBlacklist in front of the route (authMiddleware 108-133),
\* then lines 135-144: the token of the request is invalidated; a failing
\* store call lands in the catch (154-157)
KickInvalidate(token, targetUserId) ==
    /\ mod.pc = "idle"
    /\ TokenOwner(token) = AdminId
    /\ IF ~AdminRequest(token)
       THEN /\ out' = <<Respond(401)>>
            /\ UNCHANGED <<sessions, mod>>
       ELSE \/ /\ sessions' = InvalidateToken(sessions, token, targetUserId)
               /\ mod' = [ModIdle EXCEPT !.pc = "invalidated", !.kind = "kick",
                                         !.target = targetUserId]
               /\ out' = <<>>
            \/ /\ out' = <<Respond(500)>>
               /\ UNCHANGED <<sessions, mod>>
    /\ UNCHANGED <<now, punishments, onlineUsers, sockVars, ban, timers, entered, reqVars>>

\* lines 147-152: what the route does to the target's live connection
KickEvict_noRemove(reg, c, targetUserId) ==
    LET targetSocketId == getUserSocketIdIn(reg, targetUserId) IN
    IF targetSocketId # Null
    THEN [out |-> <<EmitTo("user_kicked", targetSocketId, Null),
                    CloseCall(targetSocketId),
                    Fx("removeUser", "", Null, {}, targetUserId, {})>>,
          conn |-> Closing(c, targetSocketId),
          reg |-> reg]
    ELSE [out |-> <<>>, conn |-> c, reg |-> reg]

KickEvict(reg, c, targetUserId) ==
    LET targetSocketId == getUserSocketIdIn(reg, targetUserId) IN
    IF targetSocketId # Null
    THEN [out |-> <<EmitTo("user_kicked", targetSocketId, Null),
                    CloseCall(targetSocketId),
                    Fx("removeUser", "", Null, {}, targetUserId, {})>>,
          conn |-> Closing(c, targetSocketId),
          reg |-> removeUser(reg, targetUserId)]
    ELSE [out |-> <<>>, conn |-> c, reg |-> reg]

\* lines 146-153: the synchronous rest of the route
KickFinish ==
    /\ mod.pc = "invalidated"
    /\ LET ev == KickEvict(onlineUsers, conn, mod.target) IN
       /\ conn' = ev.conn
       /\ onlineUsers' = ev.reg
       /\ out' = ev.out \o <<Respond(200)>>
    /\ mod' = ModIdle
    /\ UNCHANGED <<now, sessions, punishments, pc, sockUser, tokenRecord, ban, timers,
                   entered, reqVars>>

\* ------------------------------------------- socket.on("entered_chat")
\* Punishment.findOne({where: {userId, type: "mute"}}): any one of the
\* matching records (the query has no ORDER BY), none, or a store failure
findMute(tab, userId, t) ==
    {Lookup("found", tab[i].reason, tab[i].expiresAt) :
        i \in {k \in 1..Len(tab) : tab[k].userId = userId /\ tab[k].type = "mute"}}

\* lines 45-48: the presence list is broadcast, the lookup is issued
EnteredChat(s) ==
    /\ pc[s] = "active"
    /\ conn[s] = "open"
    /\ entered[s] = NoLookup
    /\ out' = <<IoEmitUsers(onlineUsers, Connected)>>
    /\ LET found == findMute(punishments, sockUser[s], now) IN
       \E r \in (IF found = {} THEN {Lookup("null", "", Null)} ELSE found)
                \cup {Lookup("error", "", Null)} :
           entered' = [entered EXCEPT ![s] = r]
    /\ UNCHANGED <<now, sessions, punishments, onlineUsers, sockVars, ban, timers, mod,
                   reqVars>>

\* lines 49-58: socket.emit("notify_user_muted", ...) if a record came back
EnteredNotify_onError(s, r) ==
    IF r.res # "null"
    THEN <<WithPunishment(Fx("to", "notify_user_muted", s, {s} \cap Connected,
                             sockUser[s], {}), r.reason, r.expiresAt)>>
    ELSE <<>>

EnteredNotify(s, r) ==
    IF r.res = "found"
    THEN <<WithPunishment(Fx("to", "notify_user_muted", s, {s} \cap Connected,
                             sockUser[s], {}), r.reason, r.expiresAt)>>
    ELSE IF r.res = "error"
    THEN <<Log("Error checking mute status")>>
    ELSE <<>>

EnteredDone(s) ==
    /\ entered[s] # NoLookup
    /\ out' = EnteredNotify(s, entered[s])
    /\ entered' = [entered EXCEPT ![s] = NoLookup]
    /\ UNCHANGED <<now, sessions, punishments, onlineUsers, sockVars, ban, timers, mod,
                   reqVars>>

\* ------------------------------------------------ POST / (chat message)
\* MessageFilter.js: the words of the list that the vocabulary contains
BadWords == {"shit", "hitler"}

\* a text as it arrives in the handler, after the validators: its words
Texts == {<<"hello">>, <<"shit", "hello", "hitler">>}

RECURSIVE Repeat(_, _)
Repeat(ch, n) == IF n = 0 THEN "" ELSE ch \o Repeat(ch, n - 1)

\* censorText with WordReplacementType.RepeatCharacter and '*'
FilterProfanity(text) ==
    [i \in 1..Len(text) |->
        IF text[i] \in BadWords THEN Repeat("*", Len(text[i])) ELSE text[i]]

\* Punishment.findOne({where: {userId, type: "mute", expiresAt: null or > now}})
findActiveMute(tab, userId, t) ==
    \E i \in 1..Len(tab) :
        /\ tab[i].userId = userId
        /\ tab[i].type = "mute"
        /\ (tab[i].expiresAt = Null \/ tab[i].expiresAt > t)

MaxMessages == 1

\* verifyToken (authMiddleware 6-16), then lines 78-99: the mute lookup and
\* the rejection of a muted sender; a failing lookup lands in the catch
MsgCheck_noCheck(token, text) ==
    /\ chatReq.pc = "idle"
    /\ Len(messages) < MaxMessages
    /\ IF token = NoToken
       THEN out' = <<Respond(401)>> /\ UNCHANGED chatReq
       ELSE IF ~jwtVerify(token, now)
       THEN out' = <<Respond(400)>> /\ UNCHANGED chatReq
       ELSE \/ /\ chatReq' = [pc |-> "checked", userId |-> TokenOwner(token), text |-> text]
               /\ out' = <<>>
            \/ /\ out' = <<Respond(500)>>
               /\ UNCHANGED chatReq
    /\ UNCHANGED <<now, sessions, punishments, onlineUsers, sockVars, ban, timers, modVars,
                   messages, login>>

MsgCheck(token, text) ==
    /\ chatReq.pc = "idle"
    /\ Len(messages) < MaxMessages
    /\ IF token = NoToken
       THEN out' = <<Respond(401)>> /\ UNCHANGED chatReq
       ELSE IF ~jwtVerify(token, now)
       THEN out' = <<Respond(400)>> /\ UNCHANGED chatReq
       ELSE \/ IF findActiveMute(punishments, TokenOwner(token), now)
               THEN out' = <<Respond(403)>> /\ UNCHANGED chatReq
               ELSE /\ chatReq' = [pc |-> "checked", userId |-> TokenOwner(token),
                                   text |-> text]
                    /\ out' = <<>>
            \/ /\ out' = <<Respond(500)>>
               /\ UNCHANGED chatReq
    /\ UNCHANGED <<now, sessions, punishments, onlineUsers, sockVars, ban, timers, modVars,
                   messages, login>>

\* lines 101-104: Message.create with the text as received
MsgStore ==
    /\ chatReq.pc = "checked"
    /\ \/ /\ messages' = Append(messages, [userId |-> chatReq.userId, text |-> chatReq.text])
          /\ chatReq' = [chatReq EXCEPT !.pc = "stored"]
          /\ out' = <<>>
       \/ /\ out' = <<Respond(500)>>
          /\ chatReq' = MsgIdle
          /\ UNCHANGED messages
    /\ UNCHANGED <<now, sessions, punishments, onlineUsers, sockVars, ban, timers, modVars,
                   login>>

\* lines 106-117: the broadcast of the filtered text and the response
MsgFinish ==
    /\ chatReq.pc = "stored"
    /\ out' = <<WithText(IoEmit("chat_message", chatReq.userId), FilterProfanity(chatReq.text)),
                Respond(201)>>
    /\ chatReq' = MsgIdle
    /\ UNCHANGED <<now, sessions, punishments, onlineUsers, sockVars, ban, timers, modVars,
                   messages, login>>

\* ---------------------------------------------------------- POST /login
\* more than this many valid sessions refuse a further login (line 329)
MaxValidTokens == 5

MaxLogins == 1

\* the tokens jwt.sign hands out to logins
LoginTokens == (ForgedToken + 1)..(ForgedToken + MaxLogins)

\* UserToken.findAll({where: {userId, isValid: true, expiresAt > now}})
existingTokens(tab, userId, t) ==
    {k \in DOMAIN tab : tab[k].userId = userId /\ tab[k].isValid /\ tab[k].expiresAt > t}

\* lines 263-318: captcha, user and password are checked, the presence
\* registry is consulted, the ban lookup is made; a failing store call
\* lands in the catch (351-354)
LoginCheck(userId, passwordOk) ==
    /\ login.pc = "idle"
    /\ LoginTokens \ DOMAIN sessions # {}
    /\ IF ~passwordOk
       THEN out' = <<Respond(401)>> /\ UNCHANGED login
       ELSE IF getUserSocketId(userId) # Null
       THEN out' = <<Respond(403)>> /\ UNCHANGED login
       ELSE \/ IF \E i \in 1..Len(punishments) :
                     /\ punishments[i].userId = userId
                     /\ punishments[i].type = "ban"
                     /\ (punishments[i].expiresAt = Null \/ punishments[i].expiresAt > now)
               THEN out' = <<Respond(403)>> /\ UNCHANGED login
               ELSE /\ login' = [pc |-> "checked", userId |-> userId]
                    /\ out' = <<>>
            \/ /\ out' = <<Respond(500)>>
               /\ UNCHANGED login
    /\ UNCHANGED <<now, sessions, punishments, onlineUsers, sockVars, ban, timers, modVars,
                   chatReq, messages>>

\* lines 320-337: the count of the user's valid sessions
LoginCount ==
    /\ login.pc = "checked"
    /\ \/ IF Cardinality(existingTokens(sessions, login.userId, now)) > MaxValidTokens
          THEN out' = <<Respond(403)>> /\ login' = LoginIdle
          ELSE out' = <<>> /\ login' = [login EXCEPT !.pc = "counted"]
       \/ /\ out' = <<Respond(500)>>
          /\ login' = LoginIdle
    /\ UNCHANGED <<now, sessions, punishments, onlineUsers, sockVars, ban, timers, modVars,
                   chatReq, messages>>

\* lines 339-350: jwt.sign, UserToken.create, the response
LoginCreate ==
    /\ login.pc = "counted"
    /\ \/ LET token == CHOOSE k \in LoginTokens \ DOMAIN sessions :
                            \A j \in LoginTokens \ DOMAIN sessions : k <= j IN
          /\ sessions' = [k \in DOMAIN sessions \cup {token} |->
                             IF k = token
                             THEN [userId |-> login.userId, isValid |-> TRUE,
                                   expiresAt |-> now + TokenTTL]
                             ELSE sessions[k]]
          /\ out' = <<Respond(200)>>
       \/ /\ out' = <<Respond(500)>>
          /\ UNCHANGED sessions
    /\ login' = LoginIdle
    /\ UNCHANGED <<now, punishments, onlineUsers, sockVars, ban, timers, modVars,
                   chatReq, messages>>

\* ------------------------------------------------------------------ clock
Tick ==
    /\ now < MaxTime
    /\ now' = now + 1
    /\ out' = <<>>
    /\ UNCHANGED <<sessions, punishments, onlineUsers, sockVars, ban, timers, modVars,
                   reqVars>>

\* ------------------------------------------------- the registry alone
Names == {Username(u) : u \in Users}

\* onlineUsers.addUser(userId, username, socketId) called by any caller
RegAddUser(userId, username, socketId) ==
    /\ onlineUsers' = addUser(onlineUsers, userId, username, socketId)
    /\ out' = <<Fx("addUser", addUserReturns(onlineUsers, userId), socketId, {},
                   userId, {username})>>
    /\ UNCHANGED <<now, sessions, punishments, sockVars, ban, timers, modVars, reqVars>>

\* onlineUsers.removeUser(userId) called by any caller
RegRemoveUser(userId) ==
    /\ onlineUsers' = removeUser(onlineUsers, userId)
    /\ out' = <<Fx("removeUser", "", Null, {}, userId, {})>>
    /\ UNCHANGED <<now, sessions, punishments, sockVars, ban, timers, modVars, reqVars>>

NextReg ==
    \/ \E u \in Users, n \in Names, s \in Sockets : RegAddUser(u, n, s)
    \/ \E u \in Users : RegRemoveUser(u)

SpecReg == Init /\ [][NextReg]_vars

\* the socket handler alone: every user connects, the stores do not change
NextSock ==
    \/ \E s \in Sockets, token \in Credentials : Connection(s, token)
    \/ \E s \in Sockets : Admit(s)
    \/ \E s \in Sockets : AfterGrace(s)
    \/ \E s \in Sockets : Disconnect(s)
    \/ Tick

SpecSock == Init /\ [][NextSock]_vars

\* a connection attempt of a user that has no presence entry and no other
\* connection: no conflict arises, so the grace wait is never entered
\* (conflicts are the subject of SpecSock, Spec and SpecKick)
FreshConnection(s, token) ==
    /\ onlineUsers = {}
    /\ \A r \in Sockets : r < s => pc[r] = "rejected" \/ conn[r] = "closed"
    /\ Connection(s, token)

\* next to the moderation routes user 1 connects and is the target; the
\* kick route is also called for an id that has no session
Targets == {1}
KickTargets == {1, NoSuchUser}
ModDurations == {Null, 1, LongDuration}

\* the chat message route next to the mute route; user 1 connects and is
\* the target, user 1 and the administrator send messages
Senders == {1, 2, NoToken, ForgedToken}

NextChat ==
    \/ \E s \in 1..MaxAdmSockets, token \in ModCredentials : FreshConnection(s, token)
    \/ \E s \in Sockets : Admit(s)
    \/ \E s \in Sockets : Disconnect(s)
    \/ \E token \in Tokens, u \in Targets, d \in Durations : MuteCreate(token, u, "", d)
    \/ MuteFinish
    \/ \E token \in Senders, text \in Texts : MsgCheck(token, text)
    \/ MsgStore
    \/ MsgFinish
    \/ \E tm \in timers : TimerFire(tm)
    \/ Tick

SpecChat == Init /\ [][NextChat]_vars

\* the login route next to the ban route and the socket handler of user 1
NextLogin ==
    \/ \E s \in 1..MaxAdmSockets, token \in ModCredentials : FreshConnection(s, token)
    \/ \E s \in Sockets : Admit(s)
    \/ \E s \in Sockets : Disconnect(s)
    \/ \E token \in Tokens, u \in Targets, d \in Durations : BanRevoke(token, u, d)
    \/ BanCreate
    \/ BanFinish
    \/ \E u \in Targets, passwordOk \in BOOLEAN : LoginCheck(u, passwordOk)
    \/ LoginCount
    \/ LoginCreate
    \/ \E tm \in timers : TimerFire(tm)
    \/ Tick

SpecLogin == Init /\ [][NextLogin]_vars

\* the chat message route and the ban route, one request at a time; user 1
\* or the administrator is connected
NextBanChat ==
    \/ \E s \in 1..MaxAdmSockets, token \in {1, 2} : FreshConnection(s, token)
    \/ \E s \in Sockets : Admit(s)
    \/ \E s \in Sockets : Disconnect(s)
    \/ \E token \in Tokens, u \in Targets, d \in Durations :
          /\ chatReq.pc = "idle"
          /\ BanRevoke(token, u, d)
    \/ BanCreate
    \/ BanFinish
    \/ \E token \in Senders :
          /\ ban.pc = "idle"
          /\ MsgCheck(token, <<"hello">>)
    \/ MsgStore
    \/ MsgFinish
    \/ \E tm \in timers : TimerFire(tm)
    \/ Tick

SpecBanChat == Init /\ [][NextBanChat]_vars

\* the punishment routes alone, with room for a second record of a type
MaxReapplied == 2

NextReapply ==
    \/ \E token \in Tokens, u \in Targets, d \in Durations :
          BanRevokeUpTo(MaxReapplied, token, u, d)
    \/ BanCreate
    \/ BanFinish
    \/ \E token \in Tokens, u \in Targets, d \in Durations :
          MuteCreateUpTo(MaxReapplied, token, u, "", d)
    \/ MuteFinish
    \/ \E token \in Tokens, u \in Targets, type \in {"mute", "ban"} :
          RevokeDestroy(token, u, type)
    \/ RevokeFinish
    \/ \E tm \in timers : TimerFire(tm)
    \/ Tick

SpecReapply == Init /\ [][NextReapply]_vars

\* the ban, mute and kick routes next to one another; one administrator
\* request is in flight at a time
NextAdm ==
    \/ \E s \in 1..MaxAdmSockets, token \in ModCredentials : FreshConnection(s, token)
    \/ \E s \in Sockets : Admit(s)
    \/ \E s \in Sockets : Disconnect(s)
    \/ \E token \in Tokens, u \in Targets, d \in Durations :
          mod.pc = "idle" /\ BanRevoke(token, u, d)
    \/ BanCreate
    \/ BanFinish
    \/ \E token \in Tokens, u \in Targets, d \in Durations :
          ban.pc = "idle" /\ MuteCreate(token, u, "", d)
    \/ MuteFinish
    \/ \E token \in Tokens, u \in Targets : ban.pc = "idle" /\ KickInvalidate(token, u)
    \/ KickFinish
    \/ \E tm \in timers : TimerFire(tm)
    \/ Tick

SpecAdm == Init /\ [][NextAdm]_vars

\* the ban and mute routes with short and long durations, and their timers
NextExpiry ==
    \/ \E s \in 1..MaxAdmSockets, token \in ModCredentials : FreshConnection(s, token)
    \/ \E s \in Sockets : Admit(s)
    \/ \E s \in Sockets : Disconnect(s)
    \/ \E token \in Tokens, u \in Targets, d \in ModDurations :
          mod.pc = "idle" /\ BanRevoke(token, u, d)
    \/ BanCreate
    \/ BanFinish
    \/ \E token \in Tokens, u \in Targets, d \in ModDurations :
          ban.pc = "idle" /\ MuteCreate(token, u, "", d)
    \/ MuteFinish
    \/ \E tm \in timers : TimerFire(tm)
    \/ Tick

SpecExpiry == Init /\ [][NextExpiry]_vars

\* the socket handler of user 1 next to the mute, unmute and unban routes
NextMute ==
    \/ \E s \in 1..MaxAdmSockets, token \in ModCredentials : FreshConnection(s, token)
    \/ \E s \in Sockets : Admit(s)
    \/ \E s \in Sockets : Disconnect(s)
    \/ \E s \in Sockets : EnteredChat(s)
    \/ \E s \in Sockets : EnteredDone(s)
    \/ \E token \in Tokens, u \in Targets, r \in Reasons, d \in Durations :
          MuteCreate(token, u, r, d)
    \/ MuteFinish
    \/ \E token \in Tokens, u \in Targets, type \in {"mute", "ban"} :
          RevokeDestroy(token, u, type)
    \/ RevokeFinish
    \/ \E tm \in timers : TimerFire(tm)
    \/ Tick

SpecMute == Init /\ [][NextMute]_vars

\* the socket handler of user 1 next to the kick route
NextKick ==
    \/ \E s \in 1..MaxModSockets, token \in ModCredentials : Connection(s, token)
    \/ \E s \in Sockets : Admit(s)
    \/ \E s \in Sockets : AfterGrace(s)
    \/ \E s \in Sockets : Disconnect(s)
    \/ \E token \in Tokens, u \in KickTargets : KickInvalidate(token, u)
    \/ KickFinish
    \/ Tick

SpecKick == Init /\ [][NextKick]_vars

\* a close the server asked for completes: the transport gives up after
\* its close timeout at the latest
SpecKickLive ==
    SpecKick /\ \A s \in Sockets : WF_vars(conn[s] = "closing" /\ Disconnect(s))

\* the socket handler next to the ban route
Next ==
    \/ \E s \in 1..MaxModSockets, token \in ModCredentials : Connection(s, token)
    \/ \E s \in Sockets : Admit(s)
    \/ \E s \in Sockets : AfterGrace(s)
    \/ \E s \in Sockets : Disconnect(s)
    \/ \E token \in Tokens, u \in Users, d \in Durations : BanRevoke(token, u, d)
    \/ BanCreate
    \/ BanFinish
    \/ \E tm \in timers : TimerFire(tm)
    \/ Tick

Spec == Init /\ [][Next]_vars

\* ===================================================================
\* Properties
\* ===================================================================

\* Punishment.findOne({where: {userId, type: "ban", expiresAt: null or > now}})
findActiveBan(tab, userId, t) ==
    \E i \in 1..Len(tab) :
        /\ tab[i].userId = userId
        /\ tab[i].type = "ban"
        /\ (tab[i].expiresAt = Null \/ tab[i].expiresAt > t)

\* nothing is in flight: no admission awaits its session lookup or grace
\* wait, no requested close waits for its disconnect event, no ban request
\* is between two of its steps
Settled ==
    /\ ban.pc = "idle"
    /\ \A s \in Sockets : pc[s] \notin {"awaitSession", "grace"} /\ conn[s] # "closing"

\* the open connections of a user that passed admission
OpenAdmitted(u) == {s \in Sockets : pc[s] = "active" /\ conn[s] = "open" /\ sockUser[s] = u}

EntriesOf(reg, u) == {e \in reg : e.userId = u}

IsSent(fx) == fx.op \in {"to", "emit"}

\* C1: the registry never holds two entries for one identity, whatever
\* the interleaving of connection attempts, disconnects and bans.
C1_OneEntryPerIdentity ==
    \A u \in Users : Cardinality(EntriesOf(onlineUsers, u)) <= 1

\* a second connection of a registered identity has been admitted
C1_Witness ==
    \E e \in onlineUsers, s \in Sockets :
        /\ s # e.socketId
        /\ pc[s] = "active"
        /\ sockUser[s] = e.userId

\* C2: at a settled point an identity has at most one open connection
\* that passed admission.
C2_OneOpenConnectionPerIdentity ==
    Settled => \A u \in Users : Cardinality(OpenAdmitted(u)) <= 1

\* C3: at a settled point no identity with an active ban holds a presence
\* entry.
C3_NoPresenceWhileBanned ==
    Settled => \A u \in Users :
        findActiveBan(punishments, u, now) => getUserSocketId(u) = Null

\* C4: a connection whose session record is revoked when the session
\* store is queried (signature valid, record not expired) gets no record
\* back, is terminated by its continuation and is not registered.
C4_RevokedSessionNotAdmitted ==
    [][\A s \in Sockets :
          /\ \A t \in Tokens :
                (pc[s] = "idle" /\ pc'[s] # "idle" /\ ~sessions[t].isValid
                    /\ sessions[t].expiresAt > now /\ Connection(s, t))
                => (pc'[s] = "awaitSession" => tokenRecord'[s] # "found")
          /\ (pc[s] = "awaitSession" /\ tokenRecord[s] # "found")
                => /\ pc'[s] \in {"awaitSession", "rejected"}
                   /\ pc'[s] = "rejected" => conn'[s] = "closed"
                   /\ \A e \in onlineUsers' : e.socketId # s
          /\ pc[s] = "rejected"
                => pc'[s] = "rejected" /\ \A e \in onlineUsers' : e.socketId # s
      ]_vars

\* a connection with a revoked, unexpired session was terminated
C4_Witness ==
    \E s \in Sockets, t \in Tokens :
        /\ pc[s] = "rejected"
        /\ out = <<Log("Invalid or expired token"), CloseCall(s)>>
        /\ sessions[t].userId = sockUser[s]
        /\ ~sessions[t].isValid
        /\ sessions[t].expiresAt > now

\* C5: the disconnect handler of a connection removes the identity's entry
\* only if the entry holds this connection's handle; otherwise the registry
\* is left as it is.
C5_CompareAndUnregister ==
    [][\A s \in Sockets :
          (pc[s] = "active" /\ conn[s] # "closed" /\ Disconnect(s))
          => IF getUserSocketId(sockUser[s]) = s
             THEN getUserSocketIdIn(onlineUsers', sockUser[s]) = Null
             ELSE onlineUsers' = onlineUsers
      ]_vars

\* C6: an entry is only ever created for a connection that is open.
C6_RegisteredWhileOpen ==
    [][\A e \in onlineUsers' \ onlineUsers : conn[e.socketId] = "open"]_vars

C8_EvictionEndsOnNewHandle ==
    ( /\ Settled
      /\ pc[1] = "active" /\ conn[1] = "closed"
      /\ pc[2] = "active" /\ conn[2] = "open"
      /\ sockUser[1] = sockUser[2]
      /\ \A s \in Sockets \ {1, 2} : pc[s] = "idle"
      /\ punishments = <<>> /\ timers = {}
      /\ \A t \in Tokens : sessions[t].isValid )
    => getUserSocketId(sockUser[2]) = 2

\* C9: a connection attempt without credential, with a credential that
\* fails verification, or without a valid unexpired session record is
\* terminated: registry unchanged, no handlers, nothing sent.
C9_RejectedWithoutEffects ==
    [][\A s \in Sockets :
          /\ \A t \in Credentials :
                (pc[s] = "idle" /\ pc'[s] # "idle"
                    /\ (t = NoToken \/ t = ForgedToken \/ now >= TokenTTL)
                    /\ Connection(s, t))
                => pc'[s] = "rejected"
          /\ \A t \in Tokens :
                (pc[s] = "idle" /\ pc'[s] # "idle"
                    /\ ~(sessions[t].isValid /\ sessions[t].expiresAt > now)
                    /\ Connection(s, t))
                => pc'[s] = "rejected" \/ tokenRecord'[s] = "null" \/ tokenRecord'[s] = "error"
          /\ (pc[s] = "awaitSession" /\ tokenRecord[s] = "null" /\ Admit(s))
                => pc'[s] = "rejected"
          /\ (pc[s] # "rejected" /\ pc'[s] = "rejected")
                => /\ onlineUsers' = onlineUsers
                   /\ conn'[s] = "closed"
                   /\ \A r \in Sockets \ {s} : conn'[r] = conn[r]
                   /\ \A i \in 1..Len(out') : ~IsSent(out'[i])
          /\ pc[s] = "rejected" => pc'[s] = "rejected"
      ]_vars

\* a connection was rejected after the session lookup while somebody is
\* registered
C9_Witness ==
    /\ \E s \in Sockets :
          /\ pc[s] = "rejected"
          /\ out = <<Log("Invalid or expired token"), CloseCall(s)>>
    /\ onlineUsers # {}

\* C10: when the ban route reaches a target that has a presence entry it
\* emits `user_banned` to the entry's handle, calls disconnect on it,
\* removes the entry and broadcasts `notify_user_banned` to every
\* connection; the registry has no entry for the target afterwards.
C10_BanEvictsOnlineTarget ==
    [][(ban.pc = "created" /\ getUserSocketId(ban.target) # Null /\ BanFinish)
       => LET h == getUserSocketId(ban.target) IN
          /\ Len(out') >= 4
          /\ out'[1].op = "to" /\ out'[1].ev = "user_banned" /\ out'[1].sock = h
          /\ out'[1].rcpt = {h} \cap Connected
          /\ out'[2].op = "disconnect" /\ out'[2].sock = h
          /\ out'[3].op = "removeUser" /\ out'[3].userId = ban.target
          /\ out'[4].op = "emit" /\ out'[4].ev = "notify_user_banned"
          /\ out'[4].rcpt = {s \in Sockets : conn'[s] \in {"open", "closing"}}
          /\ out'[4].userId = ban.target
          /\ conn'[h] # "open"
          /\ getUserSocketIdIn(onlineUsers', ban.target) = Null
      ]_vars

\* a ban has just evicted a live connection of its target
C10_Witness ==
    /\ Len(out) >= 4
    /\ out[1].ev = "user_banned"
    /\ out[1].rcpt # {}
    /\ conn[out[1].sock] = "closing"
    /\ getUserSocketId(out[1].userId) = Null
    /\ findActiveBan(punishments, out[1].userId, now)


\* the records of one type an identity has in the Punishment table
RecordsOf(tab, userId, type) ==
    {i \in 1..Len(tab) : tab[i].userId = userId /\ tab[i].type = type}

Unpunished(type) == IF type = "ban" THEN "user_unbanned" ELSE "user_unmuted"

\* C11: a ban or mute with a duration schedules an expiry timer and one
\* without a duration schedules none; the timer fires once the duration
\* has passed, and when it fires the identity has no record of that type
\* left and `user_unbanned` / `user_unmuted` is broadcast.
C11_ExpiryTimer ==
    [][/\ (ban.pc = "created" /\ BanFinish)
            => IF ban.expiresAt # Null
               THEN \E tm \in timers' \ timers :
                        tm.userId = ban.target /\ tm.type = "ban"
               ELSE timers' = timers
       /\ (mod.pc = "created" /\ MuteFinish)
            => IF mod.expiresAt # Null
               THEN \E tm \in timers' \ timers :
                        tm.userId = mod.target /\ tm.type = "mute"
               ELSE timers' = timers
       /\ \A tm \in timers :
            (tm \notin timers' /\ TimerFire(tm))
            => /\ now >= tm.expiresAt
               /\ RecordsOf(punishments', tm.userId, tm.type) = {}
               /\ out' = <<IoEmit(Unpunished(tm.type), tm.userId)>>
      ]_vars

\* C12: the mute route changes no session record, closes no connection
\* and leaves the registry as it is; it adds one mute record, sends
\* `user_muted` to the target's connection if the target has an entry,
\* broadcasts `notify_user_muted` to every connection and schedules the
\* expiry timer if a duration was given.
C12_MuteEffects ==
    [][/\ (mod.pc = "idle" /\ mod'.pc = "created" /\ mod'.kind = "mute")
            => /\ sessions' = sessions /\ conn' = conn /\ onlineUsers' = onlineUsers
               /\ timers' = timers
               /\ out' = <<>>
               /\ punishments' = Append(punishments,
                      [userId |-> mod'.target, type |-> "mute", reason |-> mod'.reason,
                       expiresAt |-> mod'.expiresAt])
       /\ (mod.pc = "created" /\ mod.kind = "mute" /\ mod'.pc = "idle")
            => LET h == getUserSocketId(mod.target)
                   n == Len(out') IN
               /\ sessions' = sessions /\ conn' = conn /\ onlineUsers' = onlineUsers
               /\ punishments' = punishments
               /\ n = IF h # Null THEN 3 ELSE 2
               /\ h # Null =>
                     out'[1] = WithPunishment(
                                   Fx("to", "user_muted", h, {h} \cap Connected,
                                      mod.target, {}), mod.reason, mod.expiresAt)
               /\ out'[n - 1] = WithPunishment(
                                   Fx("emit", "notify_user_muted", Null, Connected,
                                      mod.target, {}), mod.reason, mod.expiresAt)
               /\ out'[n].op = "respond"
               /\ IF mod.expiresAt = Null
                  THEN timers' = timers
                  ELSE timers' = timers \cup {[userId |-> mod.target, type |-> "mute",
                                               at |-> now + TimeoutDelay(mod.duration),
                                               expiresAt |-> mod.expiresAt]}
      ]_vars

\* a timed mute of a connected identity has completed
C12_Witness ==
    /\ mod.pc = "idle"
    /\ Len(out) = 3
    /\ out[1].ev = "user_muted" /\ out[1].rcpt = {out[1].sock}
    /\ out[2].ev = "notify_user_muted" /\ out[2].rcpt # {}
    /\ conn[out[1].sock] = "open"
    /\ getUserSocketId(out[1].userId) = out[1].sock
    /\ timers # {}
    /\ RecordsOf(punishments, out[1].userId, "mute") # {}

\* C13: the unmute / unban route leaves no record of the type for the
\* identity, whether or not one existed (a call that finds none leaves the
\* table as it is), and every call then broadcasts `user_unmuted` /
\* `user_unbanned` to every connection.
C13_RevokeAlwaysBroadcasts ==
    [][/\ (mod.pc = "idle" /\ mod'.pc = "destroyed")
            => /\ RecordsOf(punishments', mod'.target, mod'.kind) = {}
               /\ punishments' = DestroyAll(punishments, mod'.target, mod'.kind)
               /\ RecordsOf(punishments, mod'.target, mod'.kind) = {}
                     => punishments' = punishments
               /\ out' = <<>>
       /\ (mod.pc = "destroyed" /\ mod'.pc = "idle")
            => /\ punishments' = punishments
               /\ Len(out') = 2
               /\ \E i \in 1..2 :
                     /\ out'[i].op = "emit"
                     /\ out'[i] = Fx("emit", Unpunished(mod.kind), Null, Connected,
                                     mod.target, {})
                     /\ out'[3 - i].op = "respond"
      ]_vars

\* an unmute that follows a timed mute has completed: no record is left
\* and the broadcast went to a connection
C13_Witness ==
    /\ mod.pc = "idle"
    /\ Len(out) = 2
    /\ out[1].op = "emit" /\ out[1].ev = "user_unmuted" /\ out[1].rcpt # {}
    /\ out[2].op = "respond"
    /\ punishments = <<>>
    /\ timers # {}

\* C14: the kick route sets isValid = false on the session record of the
\* token that came with the request and on no other; the session records
\* of the kicked identity keep their value.
C14_KickInvalidatesRequestToken ==
    [][/\ \A token \in Tokens, u \in KickTargets :
            (mod.pc = "idle" /\ mod'.pc = "invalidated" /\ KickInvalidate(token, u))
            => /\ sessions[token].isValid /\ ~sessions'[token].isValid
               /\ \A t \in Tokens \ {token} : sessions'[t] = sessions[t]
               /\ sessions'[token] = [sessions[token] EXCEPT !.isValid = FALSE]
       /\ (mod.pc = "invalidated" /\ mod'.pc = "idle") => sessions' = sessions
      ]_vars

\* a kick of user 1 has invalidated the token of its request, and the
\* session of user 1 is still valid
C14_Witness ==
    /\ mod.pc = "invalidated"
    /\ mod.target = 1
    /\ sessions[1].isValid
    /\ \E t \in Tokens : TokenOwner(t) = AdminId /\ ~sessions[t].isValid

\* C15: when the kick route reaches a target that has a presence entry it
\* emits `user_kicked` to the entry's handle, calls disconnect on it and
\* removes the entry; the registry has no entry for the target when the
\* route responds.
C15_KickEvictsOnlineTarget ==
    [][(mod.pc = "invalidated" /\ getUserSocketId(mod.target) # Null /\ mod'.pc = "idle")
       => LET h == getUserSocketId(mod.target) IN
          /\ Len(out') = 4
          /\ out'[1] = Fx("to", "user_kicked", h, {h} \cap Connected, Null, {})
          /\ out'[2] = CloseCall(h)
          /\ out'[3].op = "removeUser" /\ out'[3].userId = mod.target
          /\ out'[4].op = "respond" /\ out'[4].ev = 200
          /\ conn'[h] # "open"
          /\ \A s \in Sockets \ {h} : conn'[s] = conn[s]
          /\ getUserSocketIdIn(onlineUsers', mod.target) = Null
      ]_vars

\* a kick has just evicted a live connection of its target
C15_Witness ==
    /\ Len(out) = 4
    /\ out[1].op = "to" /\ out[1].ev = "user_kicked"
    /\ out[1].rcpt = {out[1].sock}
    /\ conn[out[1].sock] = "closing"
    /\ onlineUsers = {}

\* C16: a kick requested by the administrator (signed, unexpired token)
\* for an identity that has no presence entry and no session record is
\* accepted, and unless a store call fails it is answered with 200, sends
\* nothing, closes nothing and leaves the registry as it is; the same holds
\* when the request is repeated.
C16_KickOfAbsentIdentityRepeats ==
    [][/\ \A token \in Tokens, u \in KickTargets :
            (/\ mod.pc = "idle"
             /\ TokenOwner(token) = AdminId /\ jwtVerify(token, now)
             /\ getUserSocketId(u) = Null
             /\ \A t \in Tokens : sessions[t].userId # u
             /\ KickInvalidate(token, u))
            => /\ \A i \in 1..Len(out') : ~(out'[i].op = "respond" /\ out'[i].ev = 401)
               /\ onlineUsers' = onlineUsers /\ conn' = conn
       /\ (/\ mod.pc = "invalidated" /\ mod'.pc = "idle"
           /\ getUserSocketId(mod.target) = Null
           /\ \A t \in Tokens : sessions[t].userId # mod.target)
            => /\ out' = <<Respond(200)>>
               /\ onlineUsers' = onlineUsers /\ conn' = conn
      ]_vars

\* an active record: permanent, or not yet expired
ActiveMutes(tab, userId, t) ==
    {i \in RecordsOf(tab, userId, "mute") : tab[i].expiresAt = Null \/ tab[i].expiresAt > t}

\* C17: an "entered" signal broadcasts the presence list to every
\* connection; unless the lookup fails, a mute record comes back if and only
\* if the identity has an active mute record, it is one of the active
\* records, and the notice with its reason and expiresAt goes to the
\* signalling connection only; without a record nothing is sent.
C17_EnteredMuteNotice ==
    [][\A s \in Sockets :
          /\ (entered[s] = NoLookup /\ entered'[s] # NoLookup)
                => /\ out' = <<IoEmitUsers(onlineUsers, Connected)>>
                   /\ entered'[s].res = "null"
                         => ActiveMutes(punishments, sockUser[s], now) = {}
                   /\ entered'[s].res = "found"
                         => \E i \in ActiveMutes(punishments, sockUser[s], now) :
                               /\ entered'[s].reason = punishments[i].reason
                               /\ entered'[s].expiresAt = punishments[i].expiresAt
          /\ (entered[s].res = "found" /\ entered'[s] = NoLookup)
                => out' = <<WithPunishment(
                               Fx("to", "notify_user_muted", s, {s} \cap Connected,
                                  sockUser[s], {}),
                               entered[s].reason, entered[s].expiresAt)>>
          /\ (entered[s].res = "null" /\ entered'[s] = NoLookup)
                => out' = <<>>
      ]_vars

\* C18: if the mute lookup of an "entered" signal fails, the presence list
\* has been broadcast all the same, no notice is sent, and the connection
\* stays as it is: open, admitted and registered as before.
C18_EnteredLookupFailsOpen ==
    [][\A s \in Sockets :
          /\ (entered[s] = NoLookup /\ entered'[s].res = "error")
                => /\ out' = <<IoEmitUsers(onlineUsers, Connected)>>
                   /\ out'[1].rcpt = Connected /\ s \in Connected
                   /\ conn' = conn /\ pc' = pc /\ onlineUsers' = onlineUsers
          /\ (entered[s].res = "error" /\ entered'[s] = NoLookup)
                => /\ \A i \in 1..Len(out') : ~IsSent(out'[i])
                   /\ conn' = conn /\ pc' = pc /\ onlineUsers' = onlineUsers
      ]_vars

\* the failure of a lookup was just logged for a connection that is open
\* and registered, with a mute record in the table
C18_Witness ==
    /\ out = <<Log("Error checking mute status")>>
    /\ \E s \in Sockets :
          /\ pc[s] = "active" /\ conn[s] = "open"
          /\ getUserSocketId(sockUser[s]) = s
          /\ RecordsOf(punishments, sockUser[s], "mute") # {}

\* a step of a ban, mute or kick request that writes to a store
StoreWriteStep ==
    \/ ban.pc = "idle" /\ ban'.pc = "revoked"
    \/ ban.pc = "revoked" /\ ban'.pc = "created"
    \/ mod.pc = "idle" /\ mod'.pc \in {"created", "invalidated"}

\* the step of a ban, mute or kick request that acts on live connections
LiveEffectStep ==
    \/ ban.pc = "created" /\ ban'.pc = "idle"
    \/ mod.pc \in {"created", "invalidated"} /\ mod'.pc = "idle"

\* a request is answered with a failure
FailureStep == \E i \in 1..Len(out') : out'[i].op = "respond" /\ out'[i].ev = 500

\* nothing is sent, no close is asked for, the registry is not touched
NoLiveEffect ==
    /\ conn' = conn
    /\ onlineUsers' = onlineUsers
    /\ timers' = timers
    /\ \A i \in 1..Len(out') : out'[i].op = "respond"

\* C19: in the ban, mute and kick routes the steps that write to the
\* session or punishment store have no effect on connections or registry,
\* and the step that has such effects writes to no store, so every write
\* of the request is complete by then; a request whose store write fails
\* is answered with a failure, ends there, and has had no such effect.
C19_WritesBeforeEffects ==
    [][/\ StoreWriteStep => NoLiveEffect /\ out' = <<>>
       /\ LiveEffectStep => sessions' = sessions /\ punishments' = punishments
       /\ FailureStep => /\ NoLiveEffect
                         /\ Len(out') = 1
                         /\ ban'.pc = "idle" /\ mod'.pc = "idle"
       /\ (ban.pc = "revoked" /\ ban'.pc = "idle") => FailureStep
      ]_vars

\* the ban of a registered, connected identity was given up after its
\* session write because the punishment write failed
C19_Witness ==
    /\ out = <<Respond(500)>>
    /\ ban.pc = "idle" /\ mod.pc = "idle"
    /\ punishments = <<>>
    /\ \E s \in Sockets :
          /\ pc[s] = "active" /\ conn[s] = "open"
          /\ getUserSocketId(sockUser[s]) = s
          /\ \A t \in Tokens : sessions[t].userId = sockUser[s] => ~sessions[t].isValid

\* the registry entry that holds a socket's handle
HoldsEntry(reg, s) == \E e \in reg : e.socketId = s

\* C20: when the transport of an admitted connection closes, whatever
\* asked for it, no entry holds its handle afterwards and
\* `chat_update_users` is broadcast to every remaining connection with
\* exactly the display names then registered; a close the server asked
\* for (eviction, kick) does complete, so the entry of a closing
\* connection is eventually gone.
C20_ClosedConnectionUnregisters ==
    /\ [][\A s \in Sockets :
             (pc[s] = "active" /\ conn[s] # "closed" /\ conn'[s] = "closed")
             => /\ ~HoldsEntry(onlineUsers', s)
                /\ Len(out') = 2
                /\ out'[2] = Fx("emit", "chat_update_users", Null,
                                {r \in Sockets : conn'[r] \in {"open", "closing"}},
                                Null, getAllUsernames(onlineUsers'))
         ]_vars
    /\ \A s \in Sockets :
          (pc[s] = "active" /\ conn[s] = "closing")
              ~> (conn[s] = "closed" /\ ~HoldsEntry(onlineUsers, s))

\* an evicted connection that was registered has just closed: its entry
\* is gone and the list went to the connection that evicted it
C20_Witness ==
    /\ Len(out) = 2
    /\ out[1].op = "removeUser"
    /\ out[2].op = "emit" /\ out[2].ev = "chat_update_users"
    /\ \E s, r \in Sockets :
          /\ pc[s] = "active" /\ conn[s] = "closed" /\ sockUser[s] = out[1].userId
          /\ pc[r] = "grace" /\ sockUser[r] = sockUser[s]
          /\ r \in out[2].rcpt
          /\ ~HoldsEntry(onlineUsers, s)

\* the entries of the identities other than one
Others(reg, userId) == {e \in reg : e.userId # userId}

\* C21: addUser for an identity that has an entry returns false and
\* leaves the registry, hence the entry's handle and display name, as it
\* is; for an identity without an entry it returns true and the lookup
\* then gives the handle; the entries of other identities never change.
C21_RegisterConflictOrOk ==
    [][\A u \in Users, n \in Names, s \in Sockets :
          RegAddUser(u, n, s)
          => /\ Others(onlineUsers', u) = Others(onlineUsers, u)
             /\ IF getUserSocketId(u) # Null
                THEN /\ out'[1].ev = "false"
                     /\ onlineUsers' = onlineUsers
                ELSE /\ out'[1].ev = "true"
                     /\ getUserSocketIdIn(onlineUsers', u) = s
                     /\ EntriesOf(onlineUsers', u)
                           = {[userId |-> u, username |-> n, socketId |-> s]}
      ]_vars

\* a register with another handle and name has just reported conflict
\* while the other identity is registered too
C21_Witness ==
    /\ Len(out) = 1
    /\ out[1].op = "addUser" /\ out[1].ev = "false"
    /\ \E e \in onlineUsers :
          /\ e.userId = out[1].userId
          /\ e.socketId # out[1].sock
          /\ e.username \notin out[1].names
    /\ \E e \in onlineUsers : e.userId # out[1].userId

\* C22: removeUser leaves the lookup of the identity empty and the
\* entries of the others as they are, and changes nothing if the identity
\* has no entry; from every registry, addUser followed by one or more
\* removeUser of the same identity ends with an empty lookup and the
\* other entries as before.
C22_UnregisterRoundTrip ==
    /\ [][\A u \in Users :
             RegRemoveUser(u)
             => /\ getUserSocketIdIn(onlineUsers', u) = Null
                /\ Others(onlineUsers', u) = Others(onlineUsers, u)
                /\ getUserSocketId(u) = Null => onlineUsers' = onlineUsers
         ]_vars
    /\ [](\A u \in Users, n \in Names, s \in Sockets :
             LET once == removeUser(addUser(onlineUsers, u, n, s), u) IN
             /\ getUserSocketIdIn(once, u) = Null
             /\ Others(once, u) = Others(onlineUsers, u)
             /\ removeUser(once, u) = once)

\* an identity was just unregistered while another one stays registered
C22_Witness ==
    /\ Len(out) = 1
    /\ out[1].op = "removeUser"
    /\ getUserSocketId(out[1].userId) = Null
    /\ \E e \in onlineUsers : e.userId # out[1].userId

\* C23: when the registry still holds an entry of the identity after the
\* grace wait, the connection runs the eviction once more (the targeted
\* event and the close of the entry's handle, then another grace wait)
\* instead of going on.
C23_ConflictRetriesEviction ==
    [][\A s \in Sockets :
          (pc[s] = "grace" /\ getUserSocketId(sockUser[s]) # Null /\ AfterGrace(s))
          => /\ pc'[s] = "grace"
             /\ out' = Evict(conn, getUserSocketId(sockUser[s]), sockUser[s]).out
      ]_vars

\* C24: a connection that is open with its event handlers installed never
\* coexists with a registry entry of its identity that holds another
\* handle.
C24_ConflictEndsRegisteredOrClosed ==
    \A s \in Sockets :
        (pc[s] = "active" /\ conn[s] = "open")
        => getUserSocketId(sockUser[s]) \in {Null, s}

\* C25: the session-revocation step of the ban route leaves every session
\* record of the target invalid and every session record of the other
\* identities, the requesting administrator's included, as it was.
C25_BanRevokesTargetSessions ==
    [][(ban.pc = "idle" /\ ban'.pc = "revoked")
       => \A t \in Tokens :
             sessions'[t] = IF sessions[t].userId = ban'.target
                            THEN [sessions[t] EXCEPT !.isValid = FALSE]
                            ELSE sessions[t]
      ]_vars

\* the revocation step has run for user 1: its session is revoked, the
\* administrator's sessions are still valid
C25_Witness ==
    /\ ban.pc = "revoked" /\ ban.target = 1
    /\ ~sessions[1].isValid
    /\ \A t \in Tokens : sessions[t].userId = AdminId => sessions[t].isValid

\* the records of a table other than those of one identity and type
RecordsBut(tab, userId, type) ==
    SelectSeq(tab, LAMBDA p : ~(p.userId = userId /\ p.type = type))

\* C26: every successful ban or mute appends one record of that type for
\* the target and leaves all existing records as they are, also when the
\* target already has records of the type; the records of a type change
\* otherwise only when a revoke or an expiry timer deletes all of them.
C26_ReapplyAddsRecord ==
    [][/\ (ban.pc = "revoked" /\ ban'.pc = "created")
          => /\ SubSeq(punishments', 1, Len(punishments)) = punishments
             /\ Len(punishments') = Len(punishments) + 1
             /\ Cardinality(RecordsOf(punishments', ban.target, "ban"))
                   = Cardinality(RecordsOf(punishments, ban.target, "ban")) + 1
       /\ (mod.pc = "idle" /\ mod'.pc = "created" /\ mod'.kind = "mute")
          => /\ SubSeq(punishments', 1, Len(punishments)) = punishments
             /\ Len(punishments') = Len(punishments) + 1
             /\ Cardinality(RecordsOf(punishments', mod'.target, "mute"))
                   = Cardinality(RecordsOf(punishments, mod'.target, "mute")) + 1
       /\ (/\ punishments' # punishments
           /\ ~(ban.pc = "revoked" /\ ban'.pc = "created")
           /\ ~(mod.pc = "idle" /\ mod'.pc = "created"))
          => \E u \in Users, type \in {"ban", "mute"} :
                /\ \/ mod'.pc = "destroyed" /\ mod'.kind = type /\ mod'.target = u
                   \/ \E tm \in timers \ timers' : tm.userId = u /\ tm.type = type
                /\ RecordsOf(punishments', u, type) = {}
                /\ punishments' = RecordsBut(punishments, u, type)
      ]_vars

\* a second ban of user 1 has just been recorded while the first one is
\* still active
C26_Witness ==
    /\ ban.pc = "created" /\ ban.target = 1
    /\ Cardinality(RecordsOf(punishments, 1, "ban")) = 2
    /\ \A i \in RecordsOf(punishments, 1, "ban") :
          punishments[i].expiresAt = Null \/ punishments[i].expiresAt > now

\* an effect sequence holds a `chat_message` broadcast
HasChatMessage(fxs) ==
    \E k \in 1..Len(fxs) : fxs[k].op = "emit" /\ fxs[k].ev = "chat_message"

\* C27: a message whose sender has a permanent or unexpired mute record
\* when the mute lookup runs is answered with a rejection and goes no
\* further: nothing is stored and nothing is broadcast.  A message whose
\* sender has none is stored with its text as received and then broadcast
\* to every connection with each listed word replaced by asterisks (unless
\* a store call fails); no other step stores or broadcasts a message.
C27_MutedSenderRejected ==
    [][/\ \A token \in Tokens, text \in Texts :
             ( /\ jwtVerify(token, now)
               /\ findActiveMute(punishments, TokenOwner(token), now)
               /\ MsgCheck(token, text) )
             => /\ chatReq' = MsgIdle
                /\ messages' = messages
                /\ out' \in {<<Respond(403)>>, <<Respond(500)>>}
       /\ (chatReq.pc = "idle" /\ chatReq'.pc = "checked")
             => /\ ~findActiveMute(punishments, chatReq'.userId, now)
                /\ out' = <<>>
       /\ (chatReq.pc = "checked" /\ chatReq' # chatReq)
             => \/ /\ chatReq' = [chatReq EXCEPT !.pc = "stored"]
                   /\ messages' = Append(messages, [userId |-> chatReq.userId,
                                                    text |-> chatReq.text])
                   /\ out' = <<>>
                \/ /\ chatReq' = MsgIdle
                   /\ messages' = messages
                   /\ out' = <<Respond(500)>>
       /\ (chatReq.pc = "stored" /\ chatReq' # chatReq)
             => /\ Len(out') = 2
                /\ out'[1].op = "emit" /\ out'[1].ev = "chat_message"
                /\ out'[1].rcpt = Connected
                /\ out'[1].userId = chatReq.userId
                /\ Len(out'[1].text) = Len(chatReq.text)
                /\ \A i \in 1..Len(chatReq.text) :
                      /\ out'[1].text[i] \notin BadWords
                      /\ chatReq.text[i] \notin BadWords
                            => out'[1].text[i] = chatReq.text[i]
                      /\ chatReq.text[i] \in BadWords
                            => /\ Len(out'[1].text[i]) = Len(chatReq.text[i])
                               /\ out'[1].text[i] \in {"****", "******"}
                /\ out'[2] = Respond(201)
       /\ messages' # messages => chatReq.pc = "checked"
       /\ HasChatMessage(out') => (chatReq.pc = "stored" /\ chatReq' = MsgIdle)
      ]_vars

\* the administrator's message with listed words was just broadcast,
\* censored, to the connection of user 1, who is muted
C27_Witness ==
    /\ Len(out) = 2
    /\ out[1].op = "emit" /\ out[1].ev = "chat_message"
    /\ out[1].userId = AdminId
    /\ out[1].text = <<"****", "hello", "******">>
    /\ \E s \in out[1].rcpt : sockUser[s] = 1 /\ conn[s] = "open"
    /\ findActiveMute(punishments, 1, now)
    /\ messages = <<[userId |-> AdminId, text |-> <<"shit", "hello", "hitler">>]>>

\* the permanent records of an identity and type
PermanentOf(tab, userId, type) ==
    {i \in RecordsOf(tab, userId, type) : tab[i].expiresAt = Null}

\* C28: a record without expiry is deleted only by the revoke route for
\* its identity and type; an expiry timer that fires while the identity
\* has a permanent record of the timer's type leaves the table as it is
\* and broadcasts no `user_un<type>`.
C28_PermanentOutlivesOldTimer ==
    [][\A u \in Users, type \in {"ban", "mute"} :
          PermanentOf(punishments, u, type) # {}
          => /\ PermanentOf(punishments', u, type) = {}
                => (mod'.pc = "destroyed" /\ mod'.kind = type /\ mod'.target = u)
             /\ (\E tm \in timers \ timers' : tm.userId = u /\ tm.type = type)
                => /\ punishments' = punishments
                   /\ \A k \in 1..Len(out') :
                         ~(out'[k].op = "emit" /\ out'[k].ev = Unpunished(type))
      ]_vars

\* C29: once the ban route has completed, an identity with an active ban
\* record has no valid unexpired session record, also when a login of the
\* identity is interleaved with the ban.
C29_NoValidSessionAfterBan ==
    \A u \in Users :
        (ban.pc = "idle" /\ findActiveBan(punishments, u, now))
        => existingTokens(sessions, u, now) = {}

\* C30: with no ban request in flight, a `chat_message` is never
\* broadcast for a sender that has an active ban record.
C30_BannedSenderNotBroadcast ==
    [][\A k \in 1..Len(out') :
          (out'[k].op = "emit" /\ out'[k].ev = "chat_message" /\ ban.pc = "idle")
          => ~findActiveBan(punishments, out'[k].userId, now)
      ]_vars

====
